---------------------------- MODULE Spec2Model ----------------------------
(***************************************************************************)
(* Mjifarms-functions: the diagnose handlers.                              *)
(*                                                                         *)
(* A request carries a plant photo; the handler verifies the caller,       *)
(* forwards the photo to the Plant.id API, turns the vendor response into  *)
(* a diagnosis record (diagnosisData) and saves that record under          *)
(* crop_logs/{cropLogId}/diagnoses.  The repository holds several          *)
(* revisions of the handler; six of them are modelled here:                *)
(*   "api"       src/api/index.js            (/diagnose, health flag first)*)
(*   "index"     src/index.js                (/diagnosePlant, Firestore)   *)
(*   "functions" src/functions/index.js      (callable diagnosePlant)      *)
(*   "part000"   src/unnamed/part_000:34     (first handler of the file)   *)
(*   "part001"   src/unnamed/part_001:211    (/diagnose, disease first)    *)
(*   "diagnosePlant" src/unnamed/part_001:25 (callable, Realtime Database) *)
(* and with them the image proxy of src/api/get-diagnosis-image.js         *)
(* ("proxy").                                                              *)
(*                                                                         *)
(* JavaScript values are tagged records [t, n, s].  Numbers are fixed      *)
(* point, in hundredths: 0.92 is 92 and 1.0 is One.                        *)
(***************************************************************************)
EXTENDS Integers, Sequences, FiniteSets, TLC

\* How many requests are in flight side by side.
MaxRequests == 2

\* Longest disease list (result.disease.suggestions, health_assessment.diseases)
\* the vendor sends.
MaxSuggestions == 2

\* The literal 1.0 of `probability || 1.0`, in hundredths.
One == 100
\* The factor of `probability * 100`.
Percent == 100

---------------------------------------------------------------------------
\* JavaScript values

Undefined == [t |-> "undefined", n |-> 0, s |-> ""]
NaN == [t |-> "NaN", n |-> 0, s |-> ""]
Obj == [t |-> "object", n |-> 0, s |-> ""]
Num(k) == [t |-> "number", n |-> k, s |-> ""]
Str(x) == [t |-> "string", n |-> 0, s |-> x]
Bool(b) == [t |-> "boolean", n |-> IF b THEN 1 ELSE 0, s |-> ""]

\* ToBoolean: what `if (v)`, `v && ...` and `v || ...` test.
Truthy(v) ==
    CASE v.t = "undefined" -> FALSE
      [] v.t = "NaN" -> FALSE
      [] v.t = "number" -> v.n # 0
      [] v.t = "string" -> v.s # ""
      [] v.t = "boolean" -> v.n = 1
      [] OTHER -> TRUE

\* a || b
OrElse(a, b) == IF Truthy(a) THEN a ELSE b

\* v * 100: ToNumber(undefined) is NaN, and NaN * 100 is NaN.
Times100(v) ==
    CASE v.t = "number" -> Num(v.n * Percent)
      [] v.t = "boolean" -> Num(v.n * One * Percent)
      [] OTHER -> NaN

\* String conversion, as a template literal or `+` with a string applies it.
TemplateString(v) ==
    CASE v.t = "string" -> v.s
      [] v.t = "undefined" -> "undefined"
      [] v.t = "NaN" -> "NaN"
      [] v.t = "boolean" -> (IF v.n = 1 THEN "true" ELSE "false")
      [] v.t = "object" -> "[object Object]"
      [] OTHER -> "number"

\* A property that is not there; reading it yields undefined.
Absent == [has |-> FALSE]

---------------------------------------------------------------------------
\* The vendor response (apiCallResponse.data), in the fields the handlers read

Probabilities == {Undefined, Num(0), Num(92)}
Names == {Undefined, Str(""), Str("Blight")}

Img(u) == [url |-> u]
ImageLists == {Absent, [has |-> TRUE, items |-> <<Img(Str("u1")), Img(Undefined), Img(Str("u1"))>>]}

\* details.description: an object with value, or a string
Descriptions ==
    {Absent,
     [has |-> TRUE, value |-> Str("Leaf spots."), self |-> Obj],
     [has |-> TRUE, value |-> Undefined, self |-> Str("Leaf spots.")]}

\* An element of the array details.treatment: a string, or an object with value.
TreatStr(x) == [value |-> Undefined, self |-> Str(x)]
TreatObj(x) == [value |-> Str(x), self |-> Obj]

\* details.treatment: an array, an object with value, or a string
ArrayTreatment ==
    [has |-> TRUE, kind |-> "array", items |-> <<TreatStr("Prune."), TreatObj("Spray.")>>,
     value |-> Undefined, self |-> Obj]

Treatments ==
    {Absent, ArrayTreatment,
     [has |-> TRUE, kind |-> "object", items |-> <<>>, value |-> Str("Spray."), self |-> Obj],
     [has |-> TRUE, kind |-> "string", items |-> <<>>, value |-> Undefined,
      self |-> Str("Spray.")]}

DetailsSet ==
    {Absent}
    \cup {[has |-> TRUE, description |-> d, treatment |-> tr] :
            d \in Descriptions, tr \in Treatments}

\* result.disease.suggestions[0]
TopSuggestions ==
    {[name |-> nm, probability |-> p, details |-> dt, similar_images |-> im] :
        nm \in Names, p \in {Undefined, Num(92)}, dt \in DetailsSet, im \in ImageLists}

\* result.disease.suggestions[1..]
LowerSuggestions ==
    {[name |-> Str("Rust"), probability |-> Num(5), details |-> Absent,
      similar_images |-> [has |-> TRUE, items |-> <<Img(Str("u1")), Img(Str("u2"))>>]],
     [name |-> Str("Mildew"), probability |-> Num(3), details |-> Absent,
      similar_images |-> Absent]}

\* The lists of 1..MaxSuggestions entries: a top entry, then lower-ranked ones.
ListsOf(tops, lowers) ==
    UNION {{<<top>> \o rest : top \in tops, rest \in [1..k -> lowers]} :
             k \in 0..(MaxSuggestions - 1)}

\* A list-valued property: absent, empty, or one of lists.
OptList(lists) ==
    {Absent, [has |-> TRUE, items |-> <<>>]}
    \cup {[has |-> TRUE, items |-> l] : l \in lists}

\* is_healthy, with the binary values of one vendor API version
HealthFlags(binaries) ==
    {Absent, [has |-> TRUE, binary |-> Undefined, probability |-> Undefined]}
    \cup {[has |-> TRUE, binary |-> b, probability |-> p] :
            b \in binaries, p \in Probabilities}

\* result.disease
Diseases ==
    {Absent} \cup {[has |-> TRUE, suggestions |-> sl] :
                     sl \in OptList(ListsOf(TopSuggestions, LowerSuggestions))}

\* apiResponse.result (v3 health_assessment endpoint)
Results ==
    {Absent}
    \cup {[has |-> TRUE, is_healthy |-> ih, disease |-> ds] :
            ih \in HealthFlags({Bool(TRUE), Bool(FALSE)}), ds \in Diseases}

\* apiResponse.suggestions (plant identification)
PlantSuggestions ==
    {[plant_name |-> Str("Tomato"), probability |-> Num(92),
      similar_images |-> [has |-> TRUE, items |-> <<Img(Str("u3"))>>]],
     [plant_name |-> Undefined, probability |-> Undefined, similar_images |-> Absent]}

PlantLists == OptList({<<ps>> : ps \in PlantSuggestions})

\* health_assessment.diseases[0].suggestions
TreatmentNames ==
    {Absent, [has |-> TRUE, items |-> <<>>],
     [has |-> TRUE, items |-> <<[name |-> Str("Spray")], [name |-> Str("Prune")]>>]}

\* health_assessment.diseases[0].details: description, treatment (an array,
\* or an object with api_name), classification and cause
DiseaseDetails ==
    {Absent,
     [has |-> TRUE,
      description |-> [has |-> TRUE, value |-> Str("Leaf spots."), self |-> Obj],
      treatment |-> ArrayTreatment,
      classification |-> [has |-> TRUE, taxonomy |-> Obj],
      cause |-> Absent],
     [has |-> TRUE,
      description |-> Absent,
      treatment |-> [has |-> TRUE, kind |-> "object", items |-> <<>>,
                     value |-> Undefined, self |-> Obj, api_name |-> Str("copper")],
      classification |-> Absent,
      cause |-> [has |-> TRUE, name |-> Str("Fungus")]]}

\* health_assessment.diseases[0]
TopDiseases ==
    {[name |-> nm, probability |-> p, suggestions |-> sg, similar_images |-> im,
      details |-> dt] :
        nm \in Names, p \in {Undefined, Num(92)}, sg \in TreatmentNames,
        im \in ImageLists, dt \in DiseaseDetails}

\* health_assessment.diseases[1..]
LowerDiseases ==
    {[name |-> Str("Rust"), probability |-> Num(5), suggestions |-> Absent,
      similar_images |-> [has |-> TRUE, items |-> <<Img(Str("u2"))>>],
      details |-> Absent]}

\* apiResponse.health_assessment (v2 endpoint)
HealthAssessments ==
    {Absent} \cup {[has |-> TRUE, diseases |-> dl] :
                     dl \in OptList(ListsOf(TopDiseases, LowerDiseases))}

\* A decoded body that is an object, as the v3 health_assessment endpoint
\* sends it: `result` and the plant suggestions.
V3Responses ==
    {[kind |-> "object", result |-> r, suggestions |-> pl,
      is_healthy |-> Absent, health_assessment |-> Absent] :
        r \in Results, pl \in PlantLists}

\* A decoded body that is an object, as the v2 endpoint sends it: top-level
\* is_healthy and health_assessment, and the plant suggestions.
V2Responses ==
    {[kind |-> "object", result |-> Absent, suggestions |-> pl,
      is_healthy |-> ih, health_assessment |-> ha] :
        pl \in PlantLists, ih \in HealthFlags({Str("healthy"), Str("unhealthy")}),
        ha \in HealthAssessments}

ObjectResponses == V3Responses \cup V2Responses

\* A decoded body that is no object: null, a string, a number.  A property
\* read on a string or a number yields undefined; on null it throws.
NonObjectResponses ==
    {[kind |-> k, result |-> Absent, suggestions |-> Absent,
      is_healthy |-> Absent, health_assessment |-> Absent] :
        k \in {"null", "string", "number"}}

ApiResponses == ObjectResponses \cup NonObjectResponses



---------------------------------------------------------------------------
\* Response processing ("3. Process API Response and Extract Diagnosis Data")

HealthyMessage == "Your plant appears healthy!"
UnhealthyLabel == "Unhealthy - Specific issue pending analysis."
UnhealthyMessage == "Could not identify a specific issue despite appearing unhealthy. Please try a clearer photo, different angle, or consult an expert."
FallbackMessage == "Could not identify specific issue. Please try a clearer photo, different angle, or consult an expert."

\* Outcome of the synchronous processing: a record, or a TypeError thrown
\* by a property read on undefined or null.
Built(data) == [threw |-> FALSE, data |-> data]
Threw == [threw |-> TRUE]

\* a === b on primitive values
StrictEq(a, b) == a.t # "NaN" /\ a = b

\* similar_images.forEach(img => { if (img.url) relatedDiseaseImages.push(img.url) })
ImageUrls(similar_images) ==
    IF similar_images.has
    THEN LET kept == SelectSeq(similar_images.items, LAMBDA img : Truthy(img.url))
         IN  [k \in 1..Len(kept) |-> kept[k].url]
    ELSE <<>>

\* suggestions.forEach(suggestion => ... push every url of suggestion.similar_images)
RECURSIVE AllImageUrls(_)
AllImageUrls(suggestions) ==
    IF suggestions = <<>> THEN <<>>
    ELSE ImageUrls(Head(suggestions).similar_images) \o AllImageUrls(Tail(suggestions))

\* The recommendations src/api/index.js takes from topSuggestion.details.
DetailRecommendations(topSuggestion) ==
    LET details == topSuggestion.details
        description ==
            IF details.has /\ details.description.has
            THEN <<details.description.value>>
            ELSE <<>>
        treatment ==
            IF details.has /\ details.treatment.has
            THEN IF details.treatment.kind = "array"
                 THEN [k \in 1..Len(details.treatment.items) |->
                         OrElse(details.treatment.items[k].value,
                                details.treatment.items[k].self)]
                 ELSE IF Truthy(details.treatment.value)
                      THEN <<details.treatment.value>>
                      ELSE <<>>
            ELSE <<>>
    IN  description \o treatment

\* The plant-identification branch taking its entry off the list with
\* suggestions.shift(), which removes it from the vendor response.
PlantBranchApiShift(diagnosisData, topSuggestion) ==
    [diagnosisData EXCEPT
        !.pestOrDisease = Str("Identified as: " \o TemplateString(topSuggestion.plant_name)),
        !.confidenceLevel = Times100(topSuggestion.probability),
        !.recommendations = @ \o <<Str("No specific health issue detected, but the plant is identified as "
                                       \o TemplateString(topSuggestion.plant_name) \o ".")>>,
        !.relatedDiseaseImages = @ \o ImageUrls(topSuggestion.similar_images),
        !.rawApiResponse.suggestions.items = Tail(@)]

\* The plant-identification branch of src/api/index.js.
PlantBranchApi(diagnosisData, topSuggestion) ==
    [diagnosisData EXCEPT
        !.pestOrDisease = Str("Identified as: " \o TemplateString(topSuggestion.plant_name)),
        !.confidenceLevel = Times100(topSuggestion.probability),
        !.recommendations = @ \o <<Str("No specific health issue detected, but the plant is identified as "
                                       \o TemplateString(topSuggestion.plant_name) \o ".")>>,
        !.relatedDiseaseImages = @ \o ImageUrls(topSuggestion.similar_images)]

\* The disease branch with a fallback that lists the name of every suggestion.
DiseaseBranchApiAllNames(diagnosisData, suggestions) ==
    LET topSuggestion == suggestions[1]
        fromDetails == DetailRecommendations(topSuggestion)
    IN  [diagnosisData EXCEPT
            !.pestOrDisease = topSuggestion.name,
            !.confidenceLevel = Times100(topSuggestion.probability),
            !.recommendations =
                IF Len(fromDetails) = 0
                THEN [k \in 1..Len(suggestions) |-> suggestions[k].name]
                ELSE fromDetails,
            !.relatedDiseaseImages = AllImageUrls(suggestions)]

\* The disease branch of src/api/index.js.
DiseaseBranchApi(diagnosisData, suggestions) ==
    LET topSuggestion == suggestions[1]
        fromDetails == DetailRecommendations(topSuggestion)
    IN  [diagnosisData EXCEPT
            !.pestOrDisease = topSuggestion.name,
            !.confidenceLevel = Times100(topSuggestion.probability),
            !.recommendations =
                IF Len(fromDetails) = 0
                THEN <<Str("Possible issue: " \o TemplateString(topSuggestion.name) \o ".")>>
                ELSE fromDetails,
            !.relatedDiseaseImages = AllImageUrls(suggestions)]

\* The healthy branch without its recommendations.push.
HealthyBranchApiNoPush(diagnosisData, is_healthy) ==
    [diagnosisData EXCEPT
        !.pestOrDisease = Str("Healthy"),
        !.confidenceLevel = Times100(is_healthy.probability)]

\* src/api/index.js, is_healthy.binary === true
HealthyBranchApi(diagnosisData, is_healthy) ==
    [diagnosisData EXCEPT
        !.pestOrDisease = Str("Healthy"),
        !.confidenceLevel = Times100(is_healthy.probability),
        !.recommendations = @ \o <<Str(HealthyMessage)>>]

\* src/api/index.js, "Plant is unhealthy but no specific disease suggestions found"
UnhealthyBranchApi(diagnosisData, is_healthy) ==
    [diagnosisData EXCEPT
        !.pestOrDisease = Str(UnhealthyLabel),
        !.confidenceLevel = Times100(is_healthy.probability),
        !.recommendations = @ \o <<Str(UnhealthyMessage)>>]

\* The final fallback left out.
FinalFallbackSkipped(diagnosisData) == diagnosisData

\* "Final fallback if absolutely nothing was determined"
FinalFallback(diagnosisData) ==
    IF StrictEq(diagnosisData.pestOrDisease, Str("Unknown Issue"))
       /\ Len(diagnosisData.recommendations) = 0
    THEN [diagnosisData EXCEPT !.recommendations = @ \o <<Str(FallbackMessage)>>]
    ELSE diagnosisData

\* src/api/index.js, from `const diagnosisData = {` to the final fallback.
ProcessApi(apiResponse) ==
    IF apiResponse.kind = "null" THEN Threw
    ELSE
    LET initial == [date |-> "TIMESTAMP", source |-> "AI_Plant.id",
                    confidenceLevel |-> Num(0),
                    pestOrDisease |-> Str("Unknown Issue"),
                    recommendations |-> <<>>,
                    relatedDiseaseImages |-> <<>>,
                    rawApiResponse |-> apiResponse]
        result == apiResponse.result
        branched ==
            IF result.has /\ result.is_healthy.has
               /\ result.is_healthy.binary.t # "undefined"
            THEN IF StrictEq(result.is_healthy.binary, Bool(TRUE))
                 THEN HealthyBranchApi(initial, result.is_healthy)
                 ELSE IF result.disease.has /\ result.disease.suggestions.has
                         /\ Len(result.disease.suggestions.items) > 0
                      THEN DiseaseBranchApi(initial, result.disease.suggestions.items)
                      ELSE UnhealthyBranchApi(initial, result.is_healthy)
            ELSE IF apiResponse.suggestions.has
                    /\ Len(apiResponse.suggestions.items) > 0
                    /\ StrictEq(initial.pestOrDisease, Str("Unknown Issue"))
                 THEN PlantBranchApi(initial, apiResponse.suggestions.items[1])
                 ELSE initial
    IN  Built(FinalFallback(branched))


\* topDisease.suggestions.map((s) => s.name)
SuggestionNames(suggestions) == [k \in 1..Len(suggestions) |-> suggestions[k].name]

\* The health-flag block shared by the v2 revisions; healthyConfidence is the
\* right-hand side of the healthy branch's confidenceLevel assignment.
HealthBlockV2(diagnosisData, is_healthy, healthyConfidence, healthyMessage, unhealthyLabel) ==
    IF is_healthy.has /\ Truthy(is_healthy.binary)
    THEN IF StrictEq(is_healthy.binary, Str("healthy"))
         THEN [diagnosisData EXCEPT
                  !.pestOrDisease = Str("Healthy"),
                  !.confidenceLevel = healthyConfidence,
                  !.recommendations = @ \o <<Str(healthyMessage)>>]
         ELSE IF StrictEq(is_healthy.binary, Str("unhealthy"))
              THEN [diagnosisData EXCEPT
                       !.pestOrDisease = Str(unhealthyLabel),
                       !.confidenceLevel = OrElse(is_healthy.probability, Num(0))]
              ELSE diagnosisData
    ELSE diagnosisData

\* The top-disease assignments of the v2 revisions; withNames tells whether
\* the guard of the recommendations assignment passed.
DiseaseBlockV2(diagnosisData, topDisease, withNames) ==
    [diagnosisData EXCEPT
        !.pestOrDisease = topDisease.name,
        !.confidenceLevel = topDisease.probability,
        !.recommendations =
            IF withNames THEN SuggestionNames(topDisease.suggestions.items) ELSE @]

\* The plant-identification branch of the v2 revisions.
PlantBlockV2(diagnosisData, topSuggestion, label, message) ==
    [diagnosisData EXCEPT
        !.pestOrDisease = Str(label \o TemplateString(topSuggestion.plant_name)),
        !.confidenceLevel = topSuggestion.probability,
        !.recommendations = @ \o <<Str(message \o TemplateString(topSuggestion.plant_name) \o ".")>>]

InitialV2(apiResponse) ==
    [date |-> "TIMESTAMP", source |-> "AI_Plant.id",
     confidenceLevel |-> Num(0),
     pestOrDisease |-> Str("Unknown Issue"),
     recommendations |-> <<>>,
     rawApiResponse |-> apiResponse]

\* src/index.js, from `const diagnosisData = {` to the final fallback.
ProcessIndex(apiResponse) ==
    IF apiResponse.kind = "null" THEN Threw
    ELSE
    LET is_healthy == apiResponse.is_healthy
        health_assessment == apiResponse.health_assessment
        flagged == HealthBlockV2(InitialV2(apiResponse), is_healthy,
                                 OrElse(is_healthy.probability, Num(One)),
                                 HealthyMessage, UnhealthyLabel)
        branched ==
            IF health_assessment.has /\ health_assessment.diseases.has
               /\ Len(health_assessment.diseases.items) > 0
            THEN LET topDisease == health_assessment.diseases.items[1]
                 IN  DiseaseBlockV2(flagged, topDisease,
                                    topDisease.suggestions.has
                                    /\ Len(topDisease.suggestions.items) > 0)
            ELSE IF apiResponse.suggestions.has
                    /\ Len(apiResponse.suggestions.items) > 0
                    /\ StrictEq(flagged.pestOrDisease, Str("Unknown Issue"))
                 THEN PlantBlockV2(flagged, apiResponse.suggestions.items[1],
                                   "Identified as: ",
                                   "No specific health issue detected, but the plant is identified as ")
                 ELSE flagged
    IN  Built(FinalFallback(branched))

\* The first handler of src/unnamed/part_000: as src/index.js, but the guard
\* of the recommendations assignment reads apiResponse.suggestions.length.
ProcessPart000(apiResponse) ==
    IF apiResponse.kind = "null" THEN Threw
    ELSE
    LET is_healthy == apiResponse.is_healthy
        health_assessment == apiResponse.health_assessment
        flagged == HealthBlockV2(InitialV2(apiResponse), is_healthy,
                                 OrElse(is_healthy.probability, Num(One)),
                                 HealthyMessage, UnhealthyLabel)
    IN  IF health_assessment.has /\ health_assessment.diseases.has
           /\ Len(health_assessment.diseases.items) > 0
        THEN LET topDisease == health_assessment.diseases.items[1]
             IN  IF topDisease.suggestions.has /\ ~apiResponse.suggestions.has
                 THEN Threw
                 ELSE Built(FinalFallback(
                        DiseaseBlockV2(flagged, topDisease,
                                       topDisease.suggestions.has
                                       /\ Len(apiResponse.suggestions.items) > 0)))
        ELSE IF apiResponse.suggestions.has
                /\ Len(apiResponse.suggestions.items) > 0
                /\ StrictEq(flagged.pestOrDisease, Str("Unknown Issue"))
             THEN Built(FinalFallback(
                    PlantBlockV2(flagged, apiResponse.suggestions.items[1],
                                 "Identified as: ",
                                 "No specific health issue detected, but the plant is identified as ")))
             ELSE Built(FinalFallback(flagged))

\* src/functions/index.js, from `const diagnosisData = {` to the fallback:
\* health_assessment.diseases.length and suggestions.length are read unguarded,
\* and the fallback tests the recommendations only.
ProcessFunctions(apiResponse, imageUrl) ==
    IF apiResponse.kind = "null" THEN Threw
    ELSE
    LET is_healthy == apiResponse.is_healthy
        health_assessment == apiResponse.health_assessment
        initial == [date |-> "TIMESTAMP", originalImageURL |-> imageUrl,
                    source |-> "AI_Plant.id",
                    confidenceLevel |-> Num(0),
                    pestOrDisease |-> Str("Unknown Issue"),
                    recommendations |-> <<>>,
                    rawApiResponse |-> apiResponse]
        flagged == HealthBlockV2(initial, is_healthy, is_healthy.probability,
                                 "Plant appears healthy!",
                                 "Unhealthy - Specific issue pending")
        fallback(d) ==
            IF Len(d.recommendations) = 0
            THEN [d EXCEPT !.recommendations = @ \o <<Str("Could not identify specific issue.")>>]
            ELSE d
    IN  IF ~health_assessment.has \/ ~health_assessment.diseases.has
        THEN Threw
        ELSE IF Len(health_assessment.diseases.items) > 0
             THEN LET topDisease == health_assessment.diseases.items[1]
                  IN  Built(fallback(
                        DiseaseBlockV2(flagged, topDisease,
                                       topDisease.suggestions.has
                                       /\ Len(topDisease.suggestions.items) > 0)))
             ELSE IF ~apiResponse.suggestions.has
                  THEN Threw
                  ELSE IF Len(apiResponse.suggestions.items) > 0
                          /\ StrictEq(flagged.pestOrDisease, Str("Unknown Issue"))
                       THEN Built(fallback(
                              PlantBlockV2(flagged, apiResponse.suggestions.items[1],
                                           "Identified as: \n        ",
                                           "Plant identified as ")))
                       ELSE Built(fallback(flagged))


\* similar_images.map(img => img.url): one element per image, undefined for
\* an image without url.
MappedImageUrls(similar_images) ==
    [k \in 1..Len(similar_images) |-> similar_images[k].url]

\* The fields exports.diagnosePlant copies from topDisease.details; a field
\* that is not assigned stays Absent.
DetailFields(diagnosisData, details) ==
    IF ~details.has THEN diagnosisData
    ELSE [diagnosisData EXCEPT
            !.description =
                IF details.description.has
                THEN [has |-> TRUE, value |-> details.description.value]
                ELSE @,
            !.treatment =
                IF ~details.treatment.has THEN @
                ELSE IF details.treatment.kind = "array"
                THEN [has |-> TRUE, kind |-> "array",
                      items |-> [k \in 1..Len(details.treatment.items) |->
                                   IF details.treatment.items[k].self.t = "object"
                                      /\ Truthy(details.treatment.items[k].value)
                                   THEN details.treatment.items[k].value
                                   ELSE details.treatment.items[k].self],
                      value |-> Undefined]
                ELSE IF details.treatment.kind = "object"
                        /\ Truthy(details.treatment.api_name)
                THEN [has |-> TRUE, kind |-> "value", items |-> <<>>,
                      value |-> details.treatment.api_name]
                ELSE [has |-> TRUE, kind |-> "value", items |-> <<>>,
                      value |-> details.treatment.self],
            !.classification =
                IF details.classification.has
                THEN [has |-> TRUE, value |-> details.classification.taxonomy]
                ELSE @,
            !.cause =
                IF details.cause.has
                THEN [has |-> TRUE, value |-> details.cause.name]
                ELSE @]

\* exports.diagnosePlant of src/unnamed/part_001, from
\* `const diagnosisData = {` to the final fallback.  The health-flag guard
\* is `typeof binary !== 'undefined'`; its two branches are those of
\* src/index.js, and any other binary value leaves the record as it is.
ProcessDiagnosePlant(apiResponse, userId) ==
    IF apiResponse.kind = "null" THEN Threw
    ELSE
    LET is_healthy == apiResponse.is_healthy
        health_assessment == apiResponse.health_assessment
        initial == [userId |-> userId,
                    date |-> "TIMESTAMP", source |-> "AI_Plant.id",
                    confidenceLevel |-> Num(0),
                    pestOrDisease |-> Str("Unknown Issue"),
                    recommendations |-> <<>>,
                    relatedDiseaseImages |-> <<>>,
                    rawApiResponse |-> apiResponse,
                    description |-> Absent, treatment |-> Absent,
                    classification |-> Absent, cause |-> Absent]
        flagged == HealthBlockV2(initial, is_healthy,
                                 OrElse(is_healthy.probability, Num(One)),
                                 HealthyMessage, UnhealthyLabel)
        branched ==
            IF health_assessment.has /\ health_assessment.diseases.has
               /\ Len(health_assessment.diseases.items) > 0
            THEN LET topDisease == health_assessment.diseases.items[1]
                     named == DiseaseBlockV2(flagged, topDisease,
                                             topDisease.suggestions.has
                                             /\ Len(topDisease.suggestions.items) > 0)
                     pictured ==
                         IF topDisease.similar_images.has
                            /\ Len(topDisease.similar_images.items) > 0
                         THEN [named EXCEPT !.relatedDiseaseImages =
                                  MappedImageUrls(topDisease.similar_images.items)]
                         ELSE named
                 IN  DetailFields(pictured, topDisease.details)
            ELSE IF apiResponse.suggestions.has
                    /\ Len(apiResponse.suggestions.items) > 0
                    /\ StrictEq(flagged.pestOrDisease, Str("Unknown Issue"))
                 THEN LET topSuggestion == apiResponse.suggestions.items[1]
                          named == PlantBlockV2(flagged, topSuggestion,
                                     "Identified as: ",
                                     "No specific health issue detected, but the plant is identified as ")
                      IN  IF topSuggestion.similar_images.has
                             /\ Len(topSuggestion.similar_images.items) > 0
                          THEN [named EXCEPT !.relatedDiseaseImages =
                                   MappedImageUrls(topSuggestion.similar_images.items)]
                          ELSE named
                 ELSE flagged
    IN  Built(FinalFallback(branched))

\* The recommendations the disease-first revision takes from topSuggestion.details.
DetailRecommendationsPart001(topSuggestion) ==
    LET details == topSuggestion.details
        description ==
            IF details.has /\ details.description.has
            THEN <<OrElse(details.description.value, details.description.self)>>
            ELSE <<>>
        treatment ==
            IF details.has /\ details.treatment.has
            THEN IF details.treatment.kind = "array"
                 THEN [k \in 1..Len(details.treatment.items) |->
                         OrElse(details.treatment.items[k].value,
                                details.treatment.items[k].self)]
                 ELSE IF Truthy(details.treatment.value)
                      THEN <<details.treatment.value>>
                      ELSE IF details.treatment.kind = "string"
                           THEN <<details.treatment.self>>
                           ELSE <<>>
            ELSE <<>>
    IN  description \o treatment

\* The /diagnose handler of src/unnamed/part_001 that tries the disease list
\* first, from `const diagnosisData = {` to the final fallback.
ProcessPart001(apiResponse, userId, body) ==
    IF apiResponse.kind = "null" THEN Threw
    ELSE
    LET initial == [date |-> "TIMESTAMP", source |-> "AI_Plant.id",
                    confidenceLevel |-> Num(0),
                    pestOrDisease |-> Str("Unknown Issue"),
                    recommendations |-> <<>>,
                    relatedDiseaseImages |-> <<>>,
                    rawApiResponse |-> apiResponse,
                    userId |-> userId,
                    cropLogId |-> body.cropLogId,
                    plantId |-> body.plantId,
                    reviewStatus |-> "none",
                    latitude |-> Undefined,
                    longitude |-> Undefined]
        result == apiResponse.result
        branched ==
            IF ~result.has THEN initial
            ELSE IF result.disease.has /\ result.disease.suggestions.has
                    /\ Len(result.disease.suggestions.items) > 0
            THEN LET topSuggestion == result.disease.suggestions.items[1]
                     fromDetails == DetailRecommendationsPart001(topSuggestion)
                 IN  [initial EXCEPT
                        !.pestOrDisease = topSuggestion.name,
                        !.confidenceLevel = Times100(topSuggestion.probability),
                        !.recommendations =
                            IF Len(fromDetails) = 0
                            THEN <<Str("Possible issue: " \o TemplateString(topSuggestion.name) \o ".")>>
                            ELSE fromDetails,
                        !.relatedDiseaseImages = AllImageUrls(result.disease.suggestions.items)]
            ELSE IF result.is_healthy.has /\ result.is_healthy.binary.t # "undefined"
            THEN IF StrictEq(result.is_healthy.binary, Bool(TRUE))
                 THEN HealthyBranchApi(initial, result.is_healthy)
                 ELSE IF StrictEq(result.is_healthy.binary, Bool(FALSE))
                      THEN [initial EXCEPT
                               !.pestOrDisease = Str("Unhealthy - No specific issue identified."),
                               !.confidenceLevel = Times100(result.is_healthy.probability),
                               !.recommendations = @ \o <<Str("The plant appears unhealthy, but a specific issue could not be identified. Please try a clearer photo or consult an expert.")>>]
                      ELSE initial
            ELSE IF apiResponse.suggestions.has
                    /\ Len(apiResponse.suggestions.items) > 0
                 THEN PlantBranchApi(initial, apiResponse.suggestions.items[1])
                 ELSE initial
    IN  Built(FinalFallback(branched))

---------------------------------------------------------------------------
\* The handlers

Handlers == {"api", "index", "functions", "part000", "part001", "diagnosePlant", "proxy"}

\* The Firebase callables (data, context): src/functions/index.js and
\* exports.diagnosePlant of src/unnamed/part_001.
CallableHandlers == {"functions", "diagnosePlant"}

\* The diagnose revisions deployed as Vercel functions (req, res).
VercelHandlers == Handlers \ (CallableHandlers \cup {"proxy"})

\* The route of the diagnose request in each Vercel revision.
DiagnoseUrl(h) ==
    CASE h = "api" -> "/diagnose"
      [] h = "part001" -> "/diagnose"
      [] h = "index" -> "/diagnosePlant"
      [] OTHER -> "/"

\* isRootUrl of src/api/index.js; the other revisions compare with '/'.
IsRootUrl(h, url) ==
    IF h \in {"api", "part001"} THEN url = "/" \/ url = "" ELSE url = "/"

allowedOrigins ==
    {"http://localhost:55280", "http://127.0.0.1:55280", "http://localhost:55281",
     "http://127.0.0.1:55281", "http://localhost:8080", "http://127.0.0.1:8080"}

\* Requests: method, url, Origin and Authorization headers, and the body
\* fields ("" is a missing field; latitude and longitude are not sent).  For the callable, authorization =
\* "bearer" stands for a call whose context.auth is set.
Requests ==
    [method : {"OPTIONS", "GET", "POST"},
     url : {"", "/", "/diagnose", "/diagnosePlant"},
     origin : {"none", "http://localhost:8080", "http://evil.example"},
     authorization : {"none", "Basic x", "Bearer t"},
     body : [base64Image : {"", "img"}, cropLogId : {"", "c1"}, plantId : {"", "p1"}]]

NoResponse == [sent |-> FALSE]
Response(status, body) == [sent |-> TRUE, status |-> status, body |-> body]

VARIABLES
    handler,          \* the revision that is deployed
    PLANTID_API_KEY,  \* whether the environment variable is set
    pc,               \* where the handler is: idle, verify, vendor, write, write2, fetch, done
    req,              \* the request being handled
    headers,          \* the response headers set so far
    decodedToken,     \* the uid verifyIdToken resolved with
    apiResponse,      \* apiCallResponse.data
    diagnosisData,    \* the record built from apiResponse
    diagnosisId,      \* the key of the record's database entry
    db,               \* the database: path |-> value
    res,              \* the response sent to the caller
    invocations,      \* the handler invocations in progress side by side
    pushed,           \* how many keys push() / add() have generated
    outbound,         \* the URLs of the HTTP requests the handler has issued
    error             \* the exception the catch block has caught

vars == <<handler, PLANTID_API_KEY, pc, req, headers, decodedToken, apiResponse,
          diagnosisData, diagnosisId, db, res, invocations, pushed, outbound, error>>


NoRequest == [method |-> "none"]

\* No exception was caught.
NoError == [kind |-> "none", status |-> 0]

\* The exception axios.post rejects with: error.response is set and carries
\* the vendor's status, or only error.request is set, or neither; a
\* TypeError and a rejected database write have neither.
ResponseError(status) == [kind |-> "response", status |-> status]
RequestError == [kind |-> "request", status |-> 0]
OtherError == [kind |-> "other", status |-> 0]

\* An invocation that has not been started: the handler's local constants
\* (cropLogId, apiResponse, diagnosisData, diagnosisId) are not bound yet.
NotInvoked ==
    [pc |-> "idle", cropLogId |-> "", apiResponse |-> Absent,
     diagnosisData |-> Absent, diagnosisId |-> 0, res |-> NoResponse]

Init ==
    /\ handler \in Handlers
    /\ PLANTID_API_KEY \in BOOLEAN
    /\ pc = "idle"
    /\ req = NoRequest
    /\ headers = {}
    /\ decodedToken = ""
    /\ apiResponse = Absent
    /\ diagnosisData = Absent
    /\ diagnosisId = ""
    /\ db = {}
    /\ res = NoResponse
    /\ invocations = [i \in 1..MaxRequests |-> NotInvoked]
    /\ pushed = 0
    /\ outbound = {}
    /\ error = NoError

\* The handler returning with the preflight status set but never ended.
FinishPreflightOpen(status, body) ==
    /\ pc' = "done"
    /\ res' = IF status = 204 THEN res ELSE Response(status, body)

\* res.status(status).json(body) / .end(), the handler returning after it
Finish(status, body) ==
    /\ pc' = "done"
    /\ res' = Response(status, body)

\* The res.setHeader calls with src/index.js echoing whatever Origin it gets.
CorsHeadersEcho(h, r) ==
    LET common == {<<"Access-Control-Allow-Methods", "GET, POST, OPTIONS">>,
                   <<"Access-Control-Allow-Headers", "Content-Type, Authorization">>,
                   <<"Access-Control-Max-Age", "86400">>}
    IN  CASE h \in {"api", "part001"} ->
                {<<"Access-Control-Allow-Origin", "*">>} \cup common
          [] h = "index" ->
                (IF r.origin # "none"
                 THEN {<<"Access-Control-Allow-Origin", r.origin>>}
                 ELSE {}) \cup common
          [] OTHER -> {}

\* The res.setHeader calls at the top of the handler.
CorsHeaders(h, r) ==
    LET common == {<<"Access-Control-Allow-Methods", "GET, POST, OPTIONS">>,
                   <<"Access-Control-Allow-Headers", "Content-Type, Authorization">>,
                   <<"Access-Control-Max-Age", "86400">>}
    IN  CASE h \in {"api", "part001"} ->
                {<<"Access-Control-Allow-Origin", "*">>} \cup common
          [] h = "index" ->
                (IF r.origin \in allowedOrigins
                 THEN {<<"Access-Control-Allow-Origin", r.origin>>}
                 ELSE {}) \cup common
          [] OTHER -> {}

\* The validation without its plantId test.
MissingFieldButPlantId(body) == body.base64Image = "" \/ body.cropLogId = ""

\* !base64Image || !cropLogId || !plantId
MissingField(body) == body.base64Image = "" \/ body.cropLogId = "" \/ body.plantId = ""

\* The preflight test answering a diagnose route only.
PreflightOnRoute(h, r) == h # "part000" /\ r.method = "OPTIONS" /\ r.url = DiagnoseUrl(h)

\* if (req.method === 'OPTIONS'): the first handler of part_000 has no such test.
Preflight(h, r) == h # "part000" /\ r.method = "OPTIONS"

\* The API key test made for POST requests only.
KeyMissingOnPost(r) == ~PLANTID_API_KEY /\ r.method = "POST"

\* if (!PLANTID_API_KEY)
KeyMissing(r) == ~PLANTID_API_KEY

\* The catch block without its error.request branch.
ErrorStatusNoRequest(h, e) ==
    CASE e.kind = "response" ->
            IF h \in CallableHandlers \/ e.status = 0 THEN 500 ELSE e.status
      [] OTHER -> 500

\* The status the catch block answers with: error.response.status || 500,
\* 503 when only error.request is set, 500 otherwise; a callable throws
\* 'internal', 'unavailable', 'internal'.
ErrorStatus(h, e) ==
    CASE e.kind = "response" ->
            IF h \in CallableHandlers \/ e.status = 0 THEN 500 ELSE e.status
      [] e.kind = "request" -> 503
      [] OTHER -> 500

\* The message of the catch block's answer.
ErrorMessage(e) ==
    CASE e.kind = "response" -> "Plant.id API error"
      [] e.kind = "request" -> "No response received from Plant.id API."
      [] OTHER -> "Failed to diagnose plant"

\* catch (error) { ... }
Catch(e) ==
    /\ error' = e
    /\ Finish(ErrorStatus(handler, e), [message |-> ErrorMessage(e)])

\* A URL, in the parts a host test reads.
Url(scheme, host, path) == [scheme |-> scheme, host |-> host, path |-> path]

\* PLANTID_ENDPOINT, the URL axios.post is called with.
PLANTID_ENDPOINT == Url("https", "plant.id", "/api/v3/health_assessment")

\* A Vercel revision receives a request and runs to its first await
\* (verifyIdToken) or to a response.
Handle(r) ==
    /\ pc = "idle"
    /\ handler \in VercelHandlers
    /\ req' = r
    /\ headers' = CorsHeaders(handler, r)
    /\ IF Preflight(handler, r)
       THEN Finish(204, [message |-> ""])
       ELSE IF KeyMissing(r)
       THEN Finish(500, [message |-> "Server Error: Plant.id API Key not configured."])
       ELSE IF r.url = DiagnoseUrl(handler) /\ r.method = "POST"
       THEN IF r.authorization # "Bearer t"
            THEN Finish(401, [message |-> "Unauthorized: No token provided or invalid format."])
            ELSE pc' = "verify" /\ res' = res
       ELSE IF IsRootUrl(handler, r.url) /\ r.method = "GET"
       THEN Finish(200, [message |-> "Welcome to the Urban Farming Assistant App API!"])
       ELSE Finish(404, [message |-> "Not Found"])
    /\ UNCHANGED <<invocations, pushed, outbound, error, handler, PLANTID_API_KEY, decodedToken, apiResponse,
                   diagnosisData, diagnosisId, db>>

\* admin.auth().verifyIdToken resolves; the body is validated and the
\* vendor call is issued.
VerifyIdTokenOk ==
    /\ pc = "verify"
    /\ decodedToken' = "u1"
    /\ IF MissingField(req.body)
       THEN /\ Finish(400, [message |-> "Bad Request: Missing base64Image, cropLogId, or plantId."])
            /\ outbound' = outbound
       ELSE /\ pc' = "vendor" /\ res' = res
            /\ outbound' = outbound \cup {PLANTID_ENDPOINT}
    /\ UNCHANGED <<invocations, pushed, error, handler, PLANTID_API_KEY, req, headers, apiResponse,
                   diagnosisData, diagnosisId, db>>

\* admin.auth().verifyIdToken rejects.
VerifyIdTokenFail ==
    /\ pc = "verify"
    /\ Finish(401, [message |-> "Unauthorized: Invalid token."])
    /\ UNCHANGED <<invocations, pushed, outbound, error, handler, PLANTID_API_KEY, req, headers, decodedToken,
                   apiResponse, diagnosisData, diagnosisId, db>>

\* A callable is invoked and runs to its first await (axios.post) or to an
\* HttpsError; exports.diagnosePlant tests PLANTID_API_KEY after context.auth.
Call(r) ==
    /\ pc = "idle"
    /\ handler \in CallableHandlers
    /\ r.method = "POST"
    /\ req' = r
    /\ IF r.authorization # "Bearer t"
       THEN Finish(401, [message |-> "unauthenticated"])
       ELSE IF handler = "diagnosePlant" /\ ~PLANTID_API_KEY
       THEN Finish(500, [message |-> "Server Error: Plant.id API Key not configured."])
       ELSE IF MissingField(r.body)
       THEN Finish(400, [message |-> "invalid-argument"])
       ELSE pc' = "vendor" /\ res' = res
    /\ outbound' = IF pc' = "vendor" THEN outbound \cup {PLANTID_ENDPOINT} ELSE outbound
    /\ UNCHANGED <<invocations, pushed, error, handler, PLANTID_API_KEY, headers, decodedToken, apiResponse,
                   diagnosisData, diagnosisId, db>>

\* req.query.url of a request to the image proxy; NoUrl is a request
\* without the parameter.
NoUrl == Url("", "", "")

QueryUrls ==
    {NoUrl,
     Url("https", "images.plant.id", "/a.jpg"),
     Url("http", "images.plant.id", "/a.jpg"),
     Url("https", "evil.example", "/a.jpg"),
     Url("http", "169.254.169.254", "/latest/meta-data")}

\* The requests to the image proxy.
ProxyRequests == [method : {"OPTIONS", "GET", "HEAD"}, query : [url : QueryUrls]]

\* The statuses of a fetch response that is not ok.
FetchStatuses == {404, 500}

\* The image proxy receives a request and runs to `await fetch` or to a
\* response.
Proxy(r) ==
    /\ pc = "idle"
    /\ handler = "proxy"
    /\ req' = r
    /\ headers' = {<<"Access-Control-Allow-Origin", "*">>,
                   <<"Access-Control-Allow-Methods", "GET, HEAD, OPTIONS">>,
                   <<"Access-Control-Allow-Headers", "Content-Type, Authorization">>,
                   <<"Access-Control-Max-Age", "86400">>}
    /\ IF r.method = "OPTIONS"
       THEN Finish(200, [message |-> ""]) /\ outbound' = outbound
       ELSE IF r.query.url = NoUrl
       THEN /\ Finish(400, [message |-> "Missing \"url\" query parameter for the image."])
            /\ outbound' = outbound
       ELSE /\ pc' = "fetch" /\ res' = res
            /\ outbound' = outbound \cup {r.query.url}
    /\ UNCHANGED <<invocations, pushed, error, handler, PLANTID_API_KEY, decodedToken,
                   apiResponse, diagnosisData, diagnosisId, db>>

\* fetch resolves with an ok response: its body is piped to the caller.
FetchOk ==
    /\ pc = "fetch"
    /\ headers' = headers \cup {<<"Content-Type", "image/jpeg">>}
    /\ Finish(200, [message |-> "image"])
    /\ UNCHANGED <<invocations, pushed, outbound, error, handler, PLANTID_API_KEY, req,
                   decodedToken, apiResponse, diagnosisData, diagnosisId, db>>

\* fetch resolves with a response that is not ok: its status is passed on.
FetchNotOk(status) ==
    /\ pc = "fetch"
    /\ Finish(status, [message |-> "Failed to fetch image from Plant.ID"])
    /\ UNCHANGED <<invocations, pushed, outbound, error, handler, PLANTID_API_KEY, req, headers,
                   decodedToken, apiResponse, diagnosisData, diagnosisId, db>>

\* fetch rejects; the proxy's catch block answers.
FetchFail ==
    /\ pc = "fetch"
    /\ error' = OtherError
    /\ Finish(500, [message |-> "Internal server error while proxying image."])
    /\ UNCHANGED <<invocations, pushed, outbound, handler, PLANTID_API_KEY, req, headers,
                   decodedToken, apiResponse, diagnosisData, diagnosisId, db>>

\* The response processing of the deployed revision.
Process(h, data) ==
    CASE h = "api" -> ProcessApi(data)
      [] h = "index" -> ProcessIndex(data)
      [] h = "part000" -> ProcessPart000(data)
      [] h = "part001" -> ProcessPart001(data, decodedToken, req.body)
      [] h = "diagnosePlant" -> ProcessDiagnosePlant(data, "u1")
      [] OTHER -> ProcessFunctions(data, req.body.base64Image)

\* axios.post resolves with the decoded body `data`; the handler builds the
\* record and issues the database write, or a TypeError lands in the catch
\* block (neither error.response nor error.request is set).
VendorResponds(data) ==
    /\ pc = "vendor"
    /\ apiResponse' = data
    /\ LET outcome == Process(handler, data)
       IN  IF outcome.threw
           THEN /\ Catch(OtherError)
                /\ UNCHANGED <<diagnosisData, diagnosisId>>
           ELSE /\ diagnosisData' = outcome.data
                /\ diagnosisId' = "k1"
                /\ pc' = "write"
                /\ res' = res
                /\ error' = error
    /\ UNCHANGED <<invocations, pushed, outbound, handler, PLANTID_API_KEY, req, headers, decodedToken, db>>

\* axios.post rejects with an HTTP error status (error.response is set).
VendorError(status) ==
    /\ pc = "vendor"
    /\ Catch(ResponseError(status))
    /\ UNCHANGED <<invocations, pushed, outbound, handler, PLANTID_API_KEY, req, headers, decodedToken,
                   apiResponse, diagnosisData, diagnosisId, db>>

\* axios.post rejects without a response (error.request is set).
VendorNoResponse ==
    /\ pc = "vendor"
    /\ Catch(RequestError)
    /\ UNCHANGED <<invocations, pushed, outbound, handler, PLANTID_API_KEY, req, headers, decodedToken,
                   apiResponse, diagnosisData, diagnosisId, db>>

\* axios.post rejects before a request was sent (neither error.response nor
\* error.request is set).
VendorSetupError ==
    /\ pc = "vendor"
    /\ Catch(OtherError)
    /\ UNCHANGED <<invocations, pushed, outbound, handler, PLANTID_API_KEY, req, headers, decodedToken,
                   apiResponse, diagnosisData, diagnosisId, db>>

\* The path of the new entry with one cropLogId for every request.
DiagnosisPathFixed(cropLogId, id) == <<"crop_logs", "c1", "diagnoses", id>>

\* db.ref(`crop_logs/${cropLogId}/diagnoses`).push(), and
\* db.collection('crop_logs').doc(cropLogId).collection('diagnoses').add(...)
DiagnosisPath(cropLogId, id) == <<"crop_logs", cropLogId, "diagnoses", id>>

\* db.ref(`users/${userId}/diagnoses/${diagnosisId}`)
UserDiagnosisPath(userId, id) == <<"users", userId, "diagnoses", id>>

Success == [status |-> "success", diagnosisId |-> diagnosisId,
            diagnosisDetails |-> diagnosisData]

\* The write of the record under crop_logs/{cropLogId}/diagnoses completes.
WriteOk ==
    /\ pc = "write"
    /\ db' = db \cup {[path |-> DiagnosisPath(req.body.cropLogId, diagnosisId),
                       value |-> diagnosisData]}
    /\ IF handler = "part001"
       THEN pc' = "write2" /\ res' = res
       ELSE Finish(200, Success)
    /\ UNCHANGED <<invocations, pushed, outbound, error, handler, PLANTID_API_KEY, req, headers, decodedToken,
                   apiResponse, diagnosisData, diagnosisId>>

\* The write rejects; the catch block answers.
WriteFail ==
    /\ pc = "write"
    /\ Catch(OtherError)
    /\ UNCHANGED <<invocations, pushed, outbound, handler, PLANTID_API_KEY, req, headers, decodedToken,
                   apiResponse, diagnosisData, diagnosisId, db>>

\* part_001: the reference under users/{userId}/diagnoses/{diagnosisId} is written.
UserWriteOk ==
    /\ pc = "write2"
    /\ db' = db \cup {[path |-> UserDiagnosisPath(decodedToken, diagnosisId),
                       value |-> [cropLogId |-> req.body.cropLogId, timestamp |-> "TIMESTAMP"]]}
    /\ Finish(200, Success)
    /\ UNCHANGED <<invocations, pushed, outbound, error, handler, PLANTID_API_KEY, req, headers, decodedToken,
                   apiResponse, diagnosisData, diagnosisId>>

\* part_001: the second write rejects; the catch block answers.
UserWriteFail ==
    /\ pc = "write2"
    /\ Catch(OtherError)
    /\ UNCHANGED <<invocations, pushed, outbound, handler, PLANTID_API_KEY, req, headers, decodedToken,
                   apiResponse, diagnosisData, diagnosisId, db>>

VendorStatuses == {400, 429}

Next ==
    \/ pc = "idle" /\ \E r \in Requests : Handle(r)
    \/ pc = "idle" /\ \E r \in Requests : Call(r)
    \/ VerifyIdTokenOk
    \/ VerifyIdTokenFail
    \/ pc = "vendor" /\ \E data \in ApiResponses : VendorResponds(data)
    \/ \E status \in VendorStatuses : VendorError(status)
    \/ VendorNoResponse
    \/ VendorSetupError
    \/ WriteOk
    \/ WriteFail
    \/ UserWriteOk
    \/ UserWriteFail
    \/ \E r \in ProxyRequests : Proxy(r)
    \/ FetchOk
    \/ \E status \in FetchStatuses : FetchNotOk(status)
    \/ FetchFail

Spec == Init /\ [][Next]_vars


---------------------------------------------------------------------------
\* Properties

\* Response processing has built a record and issued its write.
RecordBuilt == diagnosisId # ""

\* The vendor call has resolved.
Responded == apiResponse # Absent

\* result.disease.suggestions of the vendor response, <<>> when absent
DiseaseList ==
    IF apiResponse.result.has /\ apiResponse.result.disease.has
       /\ apiResponse.result.disease.suggestions.has
    THEN apiResponse.result.disease.suggestions.items
    ELSE <<>>

\* health_assessment.diseases of the vendor response, <<>> when absent
DiseasesV2 ==
    IF apiResponse.health_assessment.has /\ apiResponse.health_assessment.diseases.has
    THEN apiResponse.health_assessment.diseases.items
    ELSE <<>>

\* apiResponse.suggestions, <<>> when absent
PlantList ==
    IF apiResponse.suggestions.has THEN apiResponse.suggestions.items ELSE <<>>

\* result.is_healthy carries a binary value
HealthFlagV3 ==
    /\ apiResponse.result.has
    /\ apiResponse.result.is_healthy.has
    /\ apiResponse.result.is_healthy.binary.t # "undefined"

\* C1: for every vendor response that is an object, the record built by the
\* diagnose handlers of src/index.js and src/api/index.js has a non-empty
\* recommendations sequence when it is persisted.
C1_RecommendationsNonEmpty ==
    (handler \in {"index", "api"} /\ RecordBuilt /\ apiResponse.kind = "object")
        => Len(diagnosisData.recommendations) > 0

\* C2: the persisted record's pestOrDisease is a non-empty string for every
\* vendor response (src/api/index.js), also when the top suggestion's name is
\* missing or empty.
C2_LabelNonEmpty ==
    (handler = "api" /\ RecordBuilt)
        => /\ diagnosisData.pestOrDisease.t = "string"
           /\ diagnosisData.pestOrDisease.s # ""

\* Every probability the handler may read is a number in [0,1].
ProbabilitiesInUnitInterval ==
    LET ok(p) == p.t = "number" /\ p.n >= 0 /\ p.n <= One
    IN  /\ (apiResponse.result.has /\ apiResponse.result.is_healthy.has)
              => ok(apiResponse.result.is_healthy.probability)
        /\ \A k \in 1..Len(DiseaseList) : ok(DiseaseList[k].probability)
        /\ \A k \in 1..Len(PlantList) : ok(PlantList[k].probability)

\* C3: for every vendor response whose probabilities lie in [0,1], the
\* confidenceLevel of the record built by src/api/index.js is a number in
\* [0,1], in every branch.
C3_ConfidenceInUnitInterval ==
    (handler = "api" /\ RecordBuilt /\ ProbabilitiesInUnitInterval)
        => /\ diagnosisData.confidenceLevel.t = "number"
           /\ diagnosisData.confidenceLevel.n >= 0
           /\ diagnosisData.confidenceLevel.n <= One

\* C4: in src/api/index.js, whenever result.disease.suggestions is non-empty,
\* pestOrDisease is the name of its first entry and confidenceLevel comes
\* from that entry's probability, whatever result.is_healthy is.
C4_DiseaseListFirst ==
    (handler = "api" /\ RecordBuilt /\ apiResponse.kind = "object"
     /\ Len(DiseaseList) > 0)
        => /\ diagnosisData.pestOrDisease = DiseaseList[1].name
           /\ diagnosisData.confidenceLevel
                 \in {DiseaseList[1].probability, Times100(DiseaseList[1].probability)}

\* C5: for every vendor response that is an object, response processing in
\* src/functions/index.js and in the first handler of src/unnamed/part_000
\* raises no error: a record is built.
C5_ProcessingTotal ==
    (handler \in {"functions", "part000"} /\ Responded /\ apiResponse.kind = "object")
        => RecordBuilt

\* C6: in src/api/index.js a vendor response that is no object (null, a
\* string, a number) gets an error response and no record is persisted, and
\* response processing signals an error in no other case.
C6_InvalidInputOnly ==
    (handler = "api" /\ Responded)
        => IF apiResponse.kind = "object"
           THEN RecordBuilt
           ELSE ~RecordBuilt /\ db = {} /\ res.sent /\ res.status # 200

\* C7: in src/api/index.js, a vendor response that is an object without a
\* health flag, disease suggestions and plant suggestions gives the record
\* "Unknown Issue", confidence 0, the generic fallback message as the only
\* recommendation, and no related images.
C7_NoSignal ==
    (handler = "api" /\ RecordBuilt /\ apiResponse.kind = "object"
     /\ ~HealthFlagV3 /\ Len(DiseaseList) = 0 /\ Len(PlantList) = 0)
        => /\ diagnosisData.pestOrDisease = Str("Unknown Issue")
           /\ diagnosisData.confidenceLevel = Num(0)
           /\ diagnosisData.recommendations
                = <<Str("Could not identify specific issue. Please try a clearer photo, different angle, or consult an expert.")>>
           /\ diagnosisData.relatedDiseaseImages = <<>>

\* C7 witness: src/api/index.js has a record in flight for an object
\* response whose result carries neither a flag nor a disease list.
C7_Witness ==
    /\ handler = "api" /\ pc = "write" /\ apiResponse.kind = "object"
    /\ apiResponse.result.has
    /\ ~HealthFlagV3 /\ Len(DiseaseList) = 0 /\ Len(PlantList) = 0

\* C8: given only a health flag that says healthy, the record is "Healthy"
\* with the health-ok message as its only recommendation, in src/index.js
\* (binary 'healthy') and src/api/index.js (binary true).
C8_HealthyOnly ==
    /\ (handler = "api" /\ RecordBuilt /\ HealthFlagV3
        /\ apiResponse.result.is_healthy.binary = Bool(TRUE)
        /\ Len(DiseaseList) = 0 /\ Len(PlantList) = 0)
          => /\ diagnosisData.pestOrDisease = Str("Healthy")
             /\ diagnosisData.recommendations = <<Str("Your plant appears healthy!")>>
    /\ (handler = "index" /\ RecordBuilt /\ apiResponse.is_healthy.has
        /\ apiResponse.is_healthy.binary = Str("healthy")
        /\ Len(DiseasesV2) = 0 /\ Len(PlantList) = 0)
          => /\ diagnosisData.pestOrDisease = Str("Healthy")
             /\ diagnosisData.recommendations = <<Str("Your plant appears healthy!")>>

\* C8 witness: src/index.js has saved the record of a response that carries
\* only the flag binary 'healthy'.
C8_Witness ==
    /\ handler = "index" /\ pc = "done" /\ res.status = 200 /\ db # {}
    /\ apiResponse.is_healthy.has
    /\ apiResponse.is_healthy.binary = Str("healthy")
    /\ Len(DiseasesV2) = 0 /\ Len(PlantList) = 0

\* The confidence the spec's rule 2 asks for: the flag's probability when it
\* is present, 1.0 when it is missing.
HealthyConfidence(is_healthy) ==
    IF is_healthy.probability.t = "undefined" THEN Num(One) ELSE is_healthy.probability

\* C9: when the flag says healthy and no disease list is present,
\* confidenceLevel equals the flag's probability whenever one is present
\* (0 included) and 1.0 only when it is missing, in src/index.js and
\* src/api/index.js.
C9_HealthyConfidence ==
    /\ (handler = "api" /\ RecordBuilt /\ HealthFlagV3
        /\ apiResponse.result.is_healthy.binary = Bool(TRUE)
        /\ Len(DiseaseList) = 0)
          => diagnosisData.confidenceLevel = HealthyConfidence(apiResponse.result.is_healthy)
    /\ (handler = "index" /\ RecordBuilt /\ apiResponse.is_healthy.has
        /\ apiResponse.is_healthy.binary = Str("healthy")
        /\ Len(DiseasesV2) = 0)
          => diagnosisData.confidenceLevel = HealthyConfidence(apiResponse.is_healthy)

\* C10: given only a flag that says unhealthy, without a probability, and no
\* disease suggestions, confidenceLevel is the number 0, in src/api/index.js
\* (binary false) and src/index.js (binary 'unhealthy').
C10_UnhealthyDefaultZero ==
    /\ (handler = "api" /\ RecordBuilt /\ HealthFlagV3
        /\ apiResponse.result.is_healthy.binary = Bool(FALSE)
        /\ apiResponse.result.is_healthy.probability.t = "undefined"
        /\ Len(DiseaseList) = 0 /\ Len(PlantList) = 0)
          => diagnosisData.confidenceLevel = Num(0)
    /\ (handler = "index" /\ RecordBuilt /\ apiResponse.is_healthy.has
        /\ apiResponse.is_healthy.binary = Str("unhealthy")
        /\ apiResponse.is_healthy.probability.t = "undefined"
        /\ Len(DiseasesV2) = 0 /\ Len(PlantList) = 0)
          => diagnosisData.confidenceLevel = Num(0)

\* C11: given a health flag that says unhealthy and no disease suggestions,
\* the record is labelled "Unhealthy - unspecified" and its recommendations
\* contain the message that notes the inconclusive result and advises a
\* retry, in src/index.js and src/api/index.js.
C11_UnhealthyUnspecified ==
    /\ (handler = "api" /\ RecordBuilt /\ HealthFlagV3
        /\ apiResponse.result.is_healthy.binary = Bool(FALSE)
        /\ Len(DiseaseList) = 0)
          => /\ diagnosisData.pestOrDisease = Str("Unhealthy - unspecified")
             /\ \E k \in 1..Len(diagnosisData.recommendations) :
                    diagnosisData.recommendations[k] = Str(UnhealthyMessage)
    /\ (handler = "index" /\ RecordBuilt /\ apiResponse.is_healthy.has
        /\ apiResponse.is_healthy.binary = Str("unhealthy")
        /\ Len(DiseasesV2) = 0)
          => /\ diagnosisData.pestOrDisease = Str("Unhealthy - unspecified")
             /\ \E k \in 1..Len(diagnosisData.recommendations) :
                    diagnosisData.recommendations[k] = Str(UnhealthyMessage)

\* C12: whenever the vendor response has no non-empty disease list and no
\* health flag but has a non-empty apiResponse.suggestions, with or without
\* a result object, the record is labelled "Identified as: " followed by the
\* first entry's plant_name, its confidence comes from that entry's
\* probability, it has exactly one recommendation, and its related images
\* are the URLs of that entry's similar images; in src/api/index.js and in
\* the disease-first revision of src/unnamed/part_001.
C12_PlantFallback ==
    (handler \in {"api", "part001"} /\ RecordBuilt /\ apiResponse.kind = "object"
     /\ Len(DiseaseList) = 0 /\ ~HealthFlagV3 /\ Len(PlantList) > 0)
       => /\ diagnosisData.pestOrDisease =
                 Str("Identified as: " \o TemplateString(PlantList[1].plant_name))
          /\ diagnosisData.confidenceLevel \in
                 {PlantList[1].probability, Times100(PlantList[1].probability)}
          /\ Len(diagnosisData.recommendations) = 1
          /\ diagnosisData.relatedDiseaseImages = ImageUrls(PlantList[1].similar_images)

\* C13: the relatedDiseaseImages sequence of a record built by
\* src/api/index.js contains no URL twice.
C13_ImagesDistinct ==
    (handler = "api" /\ RecordBuilt)
       => \A i, j \in 1..Len(diagnosisData.relatedDiseaseImages) :
              diagnosisData.relatedDiseaseImages[i] = diagnosisData.relatedDiseaseImages[j]
                 => i = j

\* The URLs listed under the similar images of one entry of a disease list.
EntryUrls(entry) ==
    IF entry.similar_images.has
    THEN {entry.similar_images.items[i].url : i \in 1..Len(entry.similar_images.items)}
         \ {Undefined}
    ELSE {}

\* The values held by a record's relatedDiseaseImages.
RelatedImages ==
    {diagnosisData.relatedDiseaseImages[i] : i \in 1..Len(diagnosisData.relatedDiseaseImages)}

\* The disease branch of src/api/index.js ran: the health flag is there and
\* is not `true`, and result.disease.suggestions is non-empty.
DiseaseRuleApi ==
    /\ handler = "api" /\ RecordBuilt /\ HealthFlagV3
    /\ apiResponse.result.is_healthy.binary # Bool(TRUE)
    /\ Len(DiseaseList) > 0

\* C14: when the disease rule applies, every URL under the similar images
\* of any entry of the disease list is in the record's related images, in
\* src/api/index.js and in exports.diagnosePlant of src/unnamed/part_001.
C14_ImagesFromEveryEntry ==
    /\ DiseaseRuleApi
          => \A k \in 1..Len(DiseaseList) : EntryUrls(DiseaseList[k]) \subseteq RelatedImages
    /\ (handler = "diagnosePlant" /\ RecordBuilt /\ Len(DiseasesV2) > 0)
          => \A k \in 1..Len(DiseasesV2) : EntryUrls(DiseasesV2[k]) \subseteq RelatedImages

\* The text of a description, a treatment or a treatment element: its value
\* when it is an object, the string itself otherwise.
TextOf(item) == IF item.self.t = "string" THEN item.self ELSE item.value

\* The description and treatment texts of one entry of a disease list, the
\* description first.
DetailTexts(entry) ==
    LET details == entry.details
    IN  IF ~details.has THEN <<>>
        ELSE (IF details.description.has THEN <<TextOf(details.description)>> ELSE <<>>)
             \o (IF ~details.treatment.has THEN <<>>
                 ELSE IF details.treatment.kind = "array"
                      THEN [k \in 1..Len(details.treatment.items) |->
                              TextOf(details.treatment.items[k])]
                      ELSE <<TextOf(details.treatment)>>)

\* C15: when the disease rule applies in src/api/index.js, the
\* recommendations are the top entry's description and treatment texts if
\* any is present, and otherwise the names of every suggestion of the list,
\* in order.
C15_DetailsElseNames ==
    DiseaseRuleApi
       => diagnosisData.recommendations =
             IF Len(DetailTexts(DiseaseList[1])) > 0
             THEN DetailTexts(DiseaseList[1])
             ELSE [k \in 1..Len(DiseaseList) |-> DiseaseList[k].name]

\* The lower-ranked entries a disease list may carry after its first entry.
LowerTails == UNION {[1..k -> LowerSuggestions] : k \in 0..(MaxSuggestions - 1)}

\* The vendor response with the entries after the first of
\* result.disease.suggestions replaced by rest.
WithLowerEntries(response, rest) ==
    [response EXCEPT !.result.disease.suggestions.items = <<@[1]>> \o rest]

\* C16: two vendor responses that differ only in the entries after the
\* first of a non-empty disease list give records with the same
\* pestOrDisease, confidenceLevel and recommendations in src/api/index.js:
\* the record built from the response received agrees in these fields with
\* the record of every response that has other lower-ranked entries.
C16_LowerEntriesOnlyImages ==
    (handler = "api" /\ RecordBuilt /\ Len(DiseaseList) > 0)
       => \A rest \in LowerTails :
             LET other == ProcessApi(WithLowerEntries(apiResponse, rest)).data
             IN  /\ other.pestOrDisease = diagnosisData.pestOrDisease
                 /\ other.confidenceLevel = diagnosisData.confidenceLevel
                 /\ other.recommendations = diagnosisData.recommendations

\* A record built by the disease branch from a list with a lower-ranked
\* entry has been saved and returned.
C16_Witness ==
    /\ DiseaseRuleApi /\ Len(DiseaseList) > 1
    /\ pc = "done" /\ res.status = 200 /\ db # {}

\* C18: in every branch of src/api/index.js the record's rawApiResponse is
\* the vendor response exactly as received: in the record built, in the
\* record saved and in the record returned to the caller.
C18_RawResponseKept ==
    (handler = "api" /\ RecordBuilt)
       => /\ diagnosisData.rawApiResponse = apiResponse
          /\ \A e \in db : e.value.rawApiResponse = apiResponse
          /\ (pc = "done" /\ res.status = 200)
                => res.body.diagnosisDetails.rawApiResponse = apiResponse

\* src/api/index.js has saved and returned a record built by the
\* plant-identification branch.
C18_Witness ==
    /\ handler = "api" /\ pc = "done" /\ res.status = 200 /\ db # {}
    /\ diagnosisId # ""
    /\ ~HealthFlagV3 /\ Len(PlantList) > 0

---------------------------------------------------------------------------
\* Several requests served side by side.  Every invocation of the handler
\* has its own constants (cropLogId, apiResponse, diagnosisData,
\* diagnosisId); `db` and the key generator behind push() / add() are
\* shared.  An invocation yields at its awaits (verifyIdToken, axios.post,
\* set / add), where the steps of other invocations interleave.

\* The revisions served side by side.
ConcurrentHandlers == {"api", "index", "part001"}

\* The cropLogId values of the requests.
CropLogIds == {"c1", "c2"}

\* The vendor responses of the requests: a disease list under an unhealthy
\* flag, and a response with nothing but a plant identification.
SampleResponses ==
    {[kind |-> "object",
      result |-> [has |-> TRUE,
                  is_healthy |-> [has |-> TRUE, binary |-> Bool(FALSE), probability |-> Num(92)],
                  disease |-> [has |-> TRUE,
                               suggestions |-> [has |-> TRUE,
                                   items |-> <<[name |-> Str("Blight"), probability |-> Num(92),
                                                details |-> Absent,
                                                similar_images |-> [has |-> TRUE,
                                                    items |-> <<Img(Str("u1"))>>]]>>]]],
      suggestions |-> Absent, is_healthy |-> Absent, health_assessment |-> Absent],
     [kind |-> "object", result |-> Absent,
      suggestions |-> [has |-> TRUE,
                       items |-> <<[plant_name |-> Str("Tomato"), probability |-> Num(92),
                                    similar_images |-> Absent]>>],
      is_healthy |-> Absent, health_assessment |-> Absent]}

\* A key generator that hands out the key it generated last once more.
NewKeyRepeated == IF pushed = 0 THEN pushed + 1 ELSE pushed

\* The key push() returns (diagnosisRef.key), or the id add() gives the new
\* document: one that was never generated before.
NewKey == pushed + 1

\* set(value) called on the diagnoses node of the crop log instead of on the
\* pushed child: it replaces everything saved for that crop log.
PutAtParent(database, path, value) ==
    {e \in database : e.path[2] # path[2]} \cup {[path |-> path, value |-> value]}

\* ref.set(value), and add(value) under its new id: the value at path is
\* replaced by value.
Put(database, path, value) ==
    {e \in database : e.path # path} \cup {[path |-> path, value |-> value]}

\* The response processing of the revision, with the recommendations array
\* kept at module level: it still holds what the requests before left in it.
DiagnoseShared(h, data, userId, cropLogId) ==
    LET outcome ==
            CASE h = "api" -> ProcessApi(data)
              [] h = "index" -> ProcessIndex(data)
              [] OTHER -> ProcessPart001(data, userId,
                                         [cropLogId |-> cropLogId, plantId |-> "p1"])
        saved == {e \in db : e.path[1] = "crop_logs"}
        left == IF saved = {} THEN <<>> ELSE (CHOOSE e \in saved : TRUE).value.recommendations
    IN  IF outcome.threw THEN outcome
        ELSE Built([outcome.data EXCEPT !.recommendations = left \o @])

\* The response processing of the revision, on the invocation's own
\* `const diagnosisData = {...}`.
Diagnose(h, data, userId, cropLogId) ==
    CASE h = "api" -> ProcessApi(data)
      [] h = "index" -> ProcessIndex(data)
      [] OTHER -> ProcessPart001(data, userId,
                                 [cropLogId |-> cropLogId, plantId |-> "p1"])

\* An invocation answers and returns.
Answer(i, status, body) ==
    invocations' = [invocations EXCEPT ![i].pc = "done",
                                        ![i].res = Response(status, body)]

Unshared == <<PLANTID_API_KEY, pc, req, headers, decodedToken, apiResponse,
              diagnosisData, diagnosisId, res, outbound, error>>

\* A POST to the diagnose route with a Bearer token and a complete body
\* arrives; the invocation runs to `await verifyIdToken`.
Receive(i, cropLogId) ==
    /\ invocations[i].pc = "idle"
    /\ invocations' = [invocations EXCEPT ![i].pc = "verify", ![i].cropLogId = cropLogId]
    /\ UNCHANGED <<handler, db, pushed, Unshared>>

\* verifyIdToken resolves; the vendor call is issued.
Verified(i) ==
    /\ invocations[i].pc = "verify"
    /\ invocations' = [invocations EXCEPT ![i].pc = "vendor"]
    /\ UNCHANGED <<handler, db, pushed, Unshared>>

\* verifyIdToken rejects.
NotVerified(i) ==
    /\ invocations[i].pc = "verify"
    /\ Answer(i, 401, [message |-> "Unauthorized: Invalid token."])
    /\ UNCHANGED <<handler, db, pushed, Unshared>>

\* axios.post resolves with `data`: the record is built, the key of the new
\* entry is generated and the write is issued.
VendorResolved(i, data) ==
    /\ invocations[i].pc = "vendor"
    /\ LET outcome == Diagnose(handler, data, "u1", invocations[i].cropLogId)
       IN  IF outcome.threw
           THEN /\ Answer(i, 500, [message |-> "Failed to diagnose plant"])
                /\ UNCHANGED pushed
           ELSE /\ invocations' = [invocations EXCEPT ![i].pc = "write",
                                                       ![i].apiResponse = data,
                                                       ![i].diagnosisData = outcome.data,
                                                       ![i].diagnosisId = NewKey]
                /\ pushed' = pushed + 1
    /\ UNCHANGED <<handler, db, Unshared>>

\* axios.post rejects without a response (error.request is set).
VendorRejected(i) ==
    /\ invocations[i].pc = "vendor"
    /\ Answer(i, 503, [message |-> "No response received from Plant.id API."])
    /\ UNCHANGED <<handler, db, pushed, Unshared>>

\* The write under crop_logs/{cropLogId}/diagnoses completes.
Written(i) ==
    /\ invocations[i].pc = "write"
    /\ db' = Put(db, DiagnosisPath(invocations[i].cropLogId, invocations[i].diagnosisId),
                 invocations[i].diagnosisData)
    /\ IF handler = "part001"
       THEN invocations' = [invocations EXCEPT ![i].pc = "write2"]
       ELSE Answer(i, 200, [status |-> "success",
                            diagnosisId |-> invocations[i].diagnosisId,
                            diagnosisDetails |-> invocations[i].diagnosisData])
    /\ UNCHANGED <<handler, pushed, Unshared>>

\* The write rejects.
NotWritten(i) ==
    /\ invocations[i].pc = "write"
    /\ Answer(i, 500, [message |-> "Failed to diagnose plant"])
    /\ UNCHANGED <<handler, db, pushed, Unshared>>

\* part_001: the write under users/{userId}/diagnoses/{diagnosisId} completes.
UserWritten(i) ==
    /\ invocations[i].pc = "write2"
    /\ db' = Put(db, UserDiagnosisPath("u1", invocations[i].diagnosisId),
                 [cropLogId |-> invocations[i].cropLogId, timestamp |-> "TIMESTAMP"])
    /\ Answer(i, 200, [status |-> "success",
                       diagnosisId |-> invocations[i].diagnosisId,
                       diagnosisDetails |-> invocations[i].diagnosisData])
    /\ UNCHANGED <<handler, pushed, Unshared>>

\* part_001: the second write rejects.
UserNotWritten(i) ==
    /\ invocations[i].pc = "write2"
    /\ Answer(i, 500, [message |-> "Failed to diagnose plant"])
    /\ UNCHANGED <<handler, db, pushed, Unshared>>

InitRequests ==
    /\ Init
    /\ handler \in ConcurrentHandlers
    /\ PLANTID_API_KEY

NextRequests ==
    \/ \E i \in 1..MaxRequests, cropLogId \in CropLogIds : Receive(i, cropLogId)
    \/ \E i \in 1..MaxRequests : Verified(i)
    \/ \E i \in 1..MaxRequests : NotVerified(i)
    \/ \E i \in 1..MaxRequests, data \in SampleResponses : VendorResolved(i, data)
    \/ \E i \in 1..MaxRequests : VendorRejected(i)
    \/ \E i \in 1..MaxRequests : Written(i)
    \/ \E i \in 1..MaxRequests : NotWritten(i)
    \/ \E i \in 1..MaxRequests : UserWritten(i)
    \/ \E i \in 1..MaxRequests : UserNotWritten(i)

SpecRequests == InitRequests /\ [][NextRequests]_vars

\* The invocations that built a record.
Diagnosed == {i \in 1..MaxRequests : invocations[i].diagnosisData # Absent}

\* The invocations that answered 200.
Succeeded ==
    {i \in 1..MaxRequests : invocations[i].pc = "done" /\ invocations[i].res.status = 200}

\* A record without its timestamp.
SansDate(record) == [f \in DOMAIN record \ {"date"} |-> record[f]]

C19_SavedUnderOwnPath ==
    handler \in {"api", "index"}
       => \A i \in Succeeded :
             /\ [path |-> <<"crop_logs", invocations[i].cropLogId, "diagnoses",
                            invocations[i].res.body.diagnosisId>>,
                 value |-> invocations[i].res.body.diagnosisDetails] \in db
             /\ invocations[i].res.body.diagnosisDetails = invocations[i].diagnosisData
             /\ \A j \in Succeeded :
                   invocations[j].res.body.diagnosisId = invocations[i].res.body.diagnosisId
                      => j = i

\* Two requests for different cropLogIds have both succeeded.
C19_Witness ==
    /\ handler \in {"api", "index"}
    /\ Succeeded = 1..MaxRequests
    /\ invocations[1].cropLogId = "c1" /\ invocations[2].cropLogId = "c2"

\* A step keeps every entry of the database as it is.
EntriesKept == \A e \in db : e \in db'

\* C20: a saved record is created once and never changed afterwards: no
\* step of any request, also one for the same cropLogId, overwrites or
\* deletes an entry that is in the database (src/api/index.js and the
\* disease-first revision of src/unnamed/part_001).
C20_RecordsKept ==
    [][(handler \in {"api", "part001"}) => EntriesKept]_vars

\* Two requests for the same cropLogId have saved different records.
C20_Witness ==
    /\ handler \in {"api", "part001"}
    /\ Succeeded = 1..MaxRequests
    /\ invocations[1].cropLogId = invocations[2].cropLogId
    /\ invocations[1].diagnosisData # invocations[2].diagnosisData
    /\ \A i \in 1..MaxRequests :
          [path |-> DiagnosisPath(invocations[i].cropLogId, invocations[i].diagnosisId),
           value |-> invocations[i].diagnosisData] \in db

\* The entries under crop_logs.
Saved == {e \in db : e.path[1] = "crop_logs"}

\* C21: requests of src/api/index.js that interleave at their awaits are
\* independent: the record and the response of each are what the request
\* gets when it runs alone (the record the processing builds from its own
\* vendor response, returned with its own key and saved under its own
\* cropLogId), and two requests for the same cropLogId leave two distinct
\* entries.
C21_Independent ==
    handler = "api"
       => /\ \A i \in Diagnosed :
                invocations[i].diagnosisData = ProcessApi(invocations[i].apiResponse).data
          /\ \A i \in Succeeded :
                /\ invocations[i].res.body.diagnosisDetails
                      = ProcessApi(invocations[i].apiResponse).data
                /\ invocations[i].res.body.diagnosisId = invocations[i].diagnosisId
                /\ \E e \in Saved :
                      /\ e.path[2] = invocations[i].cropLogId
                      /\ e.path[4] = invocations[i].diagnosisId
                      /\ e.value = ProcessApi(invocations[i].apiResponse).data
          /\ Cardinality(Saved) >= Cardinality(Succeeded)
          /\ \A i, j \in Succeeded :
                i # j => invocations[i].diagnosisId # invocations[j].diagnosisId

\* Two requests of src/api/index.js for the same cropLogId overlapped: the
\* second got its key first, the first has answered 200 and the second
\* is still waiting for its write.
C21_Witness ==
    /\ handler = "api"
    /\ invocations[1].cropLogId = invocations[2].cropLogId
    /\ invocations[1].pc = "done" /\ invocations[1].res.status = 200
    /\ invocations[1].diagnosisId > invocations[2].diagnosisId
    /\ invocations[2].pc = "write"

\* The four CORS headers src/api/index.js sets on every response.
ApiCorsHeaders ==
    {<<"Access-Control-Allow-Origin", "*">>,
     <<"Access-Control-Allow-Methods", "GET, POST, OPTIONS">>,
     <<"Access-Control-Allow-Headers", "Content-Type, Authorization">>,
     <<"Access-Control-Max-Age", "86400">>}

\* No token was verified, no outbound request issued, nothing written.
NoSideEffect == decodedToken = "" /\ outbound = {} /\ db = {}

\* C22: an OPTIONS request to src/api/index.js is answered 204 with the
\* CORS headers set, for every URL and with or without an Authorization
\* header or the Plant.id API key, and it causes no token verification, no
\* vendor call and no database write.
C22_Preflight ==
    (handler = "api" /\ req # NoRequest /\ req.method = "OPTIONS")
       => /\ pc = "done"
          /\ res.sent /\ res.status = 204
          /\ ApiCorsHeaders \subseteq headers
          /\ NoSideEffect

\* An OPTIONS request for an unknown URL, without Authorization header and
\* without the API key configured, was answered.
C22_Witness ==
    /\ handler = "api" /\ req # NoRequest /\ req.method = "OPTIONS"
    /\ req.url = "/diagnosePlant" /\ req.authorization = "none"
    /\ ~PLANTID_API_KEY
    /\ res.sent /\ res.status = 204

\* C23: in src/index.js the Access-Control-Allow-Origin header is set only
\* when the request's Origin is in allowedOrigins, and then to exactly
\* that origin; for any other or a missing Origin no response path sets it.
C23_AllowListedOrigin ==
    (handler = "index" /\ req # NoRequest)
       => /\ \A hd \in headers :
                hd[1] = "Access-Control-Allow-Origin"
                   => req.origin \in allowedOrigins /\ hd[2] = req.origin
          /\ req.origin \in allowedOrigins
                => <<"Access-Control-Allow-Origin", req.origin>> \in headers

\* src/index.js has answered a diagnose request of an allow-listed origin
\* with the header set.
C23_Witness ==
    /\ handler = "index" /\ req # NoRequest
    /\ req.origin = "http://localhost:8080"
    /\ <<"Access-Control-Allow-Origin", "http://localhost:8080">> \in headers
    /\ pc = "done" /\ res.status = 200 /\ db # {}

\* https://images.plant.id/...
PlantIdImage(url) == url.scheme = "https" /\ url.host = "images.plant.id"

\* C24: the image proxy fetches from Plant.ID only: an outbound fetch is
\* made only for a url parameter that is a Plant.ID image URL
\* (https://images.plant.id/...); a url on any other host is never fetched.
C24_PlantIdOnly ==
    handler = "proxy" => \A url \in outbound : PlantIdImage(url)

\* The request is a POST to /diagnose of src/api/index.js with the API key
\* configured.
DiagnoseRequestApi ==
    /\ handler = "api" /\ req # NoRequest /\ PLANTID_API_KEY
    /\ req.method = "POST" /\ req.url = "/diagnose"

\* C25: in the /diagnose handler of src/api/index.js a vendor call or a
\* database write happens only after the request's bearer token was
\* verified and base64Image, cropLogId and plantId were all found present;
\* a missing or malformed Authorization header and a rejected token get
\* 401, a missing field gets 400, and none of them causes a vendor call
\* or a write.
C25_AuthBeforeEffects ==
    /\ (handler = "api" /\ (outbound # {} \/ db # {} \/ pc \in {"vendor", "write"}))
          => /\ req.authorization = "Bearer t"
             /\ decodedToken = "u1"
             /\ ~(req.body.base64Image = "" \/ req.body.cropLogId = "" \/ req.body.plantId = "")
    /\ (DiagnoseRequestApi /\ req.authorization # "Bearer t")
          => pc = "done" /\ res.status = 401 /\ NoSideEffect
    /\ (DiagnoseRequestApi /\ req.authorization = "Bearer t" /\ pc = "done"
        /\ decodedToken = "")
          => res.status = 401 /\ outbound = {} /\ db = {}
    /\ (DiagnoseRequestApi /\ decodedToken = "u1"
        /\ (req.body.base64Image = "" \/ req.body.cropLogId = "" \/ req.body.plantId = ""))
          => pc = "done" /\ res.status = 400 /\ outbound = {} /\ db = {}

\* A verified, complete request has had its vendor call and its write.
C25_Witness ==
    /\ DiagnoseRequestApi /\ decodedToken = "u1"
    /\ outbound # {} /\ db # {} /\ pc = "done" /\ res.status = 200

\* The vendor call of a src/api/index.js request failed: the call was
\* issued, an exception reached the catch block and no vendor response was
\* ever assigned.
VendorFailedApi ==
    handler = "api" /\ outbound # {} /\ error # NoError /\ apiResponse = Absent

\* C26: when the vendor call fails in the /diagnose handler of
\* src/api/index.js, no diagnosis record is written and the response is an
\* error: the vendor's own HTTP status when the vendor answered with an
\* error status, 503 when no response was received, 500 otherwise; a 200
\* is never sent after a failed vendor call.
C26_VendorFailure ==
    VendorFailedApi
       => /\ db = {}
          /\ pc = "done" /\ res.sent
          /\ res.status # 200
          /\ error.kind = "response" => res.status = error.status
          /\ error.kind = "request" => res.status = 503
          /\ error.kind = "other" => res.status = 500

\* The vendor did not answer a src/api/index.js request, which got 503.
C26_Witness ==
    /\ VendorFailedApi /\ error.kind = "request"
    /\ res.sent /\ res.status = 503

\* C27: in the /diagnose handler of src/unnamed/part_001 that writes two
\* entries, the writes are all-or-nothing with respect to the response:
\* after a request either the record under crop_logs and the reference
\* under users both exist and the response is 200 success, or neither
\* exists and the response is an error.
C27_BothOrNeither ==
    (handler = "part001" /\ pc = "done" /\ req.method = "POST" /\ req.url = "/diagnose")
       => \/ /\ res.status = 200
             /\ \E e \in db : e.path = <<"crop_logs", req.body.cropLogId, "diagnoses", diagnosisId>>
             /\ \E e \in db : e.path = <<"users", decodedToken, "diagnoses", diagnosisId>>
          \/ /\ res.status # 200
             /\ db = {}

\* C28: in src/index.js the recommendation "Your plant appears healthy!"
\* is in a record only if the record's pestOrDisease is "Healthy", for
\* every combination of is_healthy and health_assessment.diseases.
C28_HealthyMessageOnlyHealthy ==
    (handler = "index" /\ RecordBuilt)
       => ((\E k \in 1..Len(diagnosisData.recommendations) :
               diagnosisData.recommendations[k] = Str("Your plant appears healthy!"))
             => diagnosisData.pestOrDisease = Str("Healthy"))

\* C29: when the Plant.id API key is not configured, src/api/index.js
\* answers every request other than OPTIONS with 500 before routing, the
\* GET / health check and unknown routes included, and verifies no token,
\* makes no vendor call and writes nothing.
C29_KeyNotConfigured ==
    (handler = "api" /\ ~PLANTID_API_KEY /\ req # NoRequest /\ req.method # "OPTIONS")
       => /\ pc = "done"
          /\ res.sent /\ res.status = 500
          /\ res.body.message = "Server Error: Plant.id API Key not configured."
          /\ NoSideEffect

\* Without the key the GET / health check was answered 500.
C29_Witness ==
    /\ handler = "api" /\ ~PLANTID_API_KEY /\ req # NoRequest
    /\ req.method = "GET" /\ req.url = "/"
    /\ res.sent /\ res.status = 500

---------------------------------------------------------------------------
\* src/api/index.js alone, with every external call resolving or rejecting
\* in the end.

\* The vendor responses of this specification: SampleResponses, and a null
\* body, on which the processing throws.
LiveResponses == SampleResponses \cup {r \in NonObjectResponses : r.kind = "null"}

InitApi == Init /\ handler = "api"

\* verifyIdToken settles.
VerifySettles == VerifyIdTokenOk \/ VerifyIdTokenFail

\* axios.post settles.
VendorSettles ==
    \/ pc = "vendor" /\ \E data \in LiveResponses : VendorResponds(data)
    \/ \E status \in VendorStatuses : VendorError(status)
    \/ VendorNoResponse
    \/ VendorSetupError

\* diagnosisRef.set settles.
WriteSettles == WriteOk \/ WriteFail

NextApi ==
    \/ pc = "idle" /\ \E r \in Requests : Handle(r)
    \/ VerifyIdTokenOk
    \/ VerifyIdTokenFail
    \/ pc = "vendor" /\ \E data \in LiveResponses : VendorResponds(data)
    \/ \E status \in VendorStatuses : VendorError(status)
    \/ VendorNoResponse
    \/ VendorSetupError
    \/ WriteOk
    \/ WriteFail

SpecApi ==
    /\ InitApi /\ [][NextApi]_vars
    /\ WF_vars(VerifySettles) /\ WF_vars(VendorSettles) /\ WF_vars(WriteSettles)

\* A response, once sent, is the only one.
RespondedOnce == res.sent => res' = res

=============================================================================
